---- MODULE Spec2Model ----
(***************************************************************************)
(* AAMU R.E.D. Guest Log (assets/js/app.js): the visit records kept in     *)
(* localStorage, the four pages and their event handlers.                  *)
(*                                                                         *)
(* Strings are sequences of one-character strings; "" is <<>>.  Time is    *)
(* counted in ticks of HoursPerTick hours, half the auto sign-out period:  *)
(* Date.now() is the variable clock and a timestamp is a number of ticks.  *)
(* A handler runs to completion within a tick, so two clock reads in one   *)
(* handler fall on the same tick or on two successive ticks.               *)
(***************************************************************************)
EXTENDS Integers, Sequences, FiniteSets, TLC

\* ------------------------------------------------------------- bounds
MaxClock == 3      \* the clock stops advancing here
MaxSignIns == 2    \* successful sign-ins in one behaviour
MaxLen == 4        \* characters of a text given to the name normalizer
MaxField == 3      \* characters of a field given to the CSV export

\* ------------------------------------------------------------- constants
AUTO_SIGNOUT_HOURS == 8

\* ------------------------------------------------------------- time
HoursPerTick == AUTO_SIGNOUT_HOURS \div 2

\* ticks between two clock reads of one handler
Drift == {0, 1}

\* ------------------------------------------------------------- strings
UpperChars == <<"A","B","C","D","E","F","G","H","I","J","K","L","M",
                "N","O","P","Q","R","S","T","U","V","W","X","Y","Z">>
LowerChars == <<"a","b","c","d","e","f","g","h","i","j","k","l","m",
                "n","o","p","q","r","s","t","u","v","w","x","y","z">>
WhiteSpace == {" ", "\t", "\n"}
Digits == <<"0","1","2","3","4","5","6","7","8","9">>

IsSpace(c) == c \in WhiteSpace

toLowerChar(c) ==
  IF \E i \in 1..26 : UpperChars[i] = c
  THEN LowerChars[CHOOSE i \in 1..26 : UpperChars[i] = c]
  ELSE c

toLowerCase(s) == [i \in 1..Len(s) |-> toLowerChar(s[i])]

RECURSIVE trimStart(_)
trimStart(s) ==
  IF s # <<>> /\ IsSpace(Head(s)) THEN trimStart(Tail(s)) ELSE s

RECURSIVE trimEnd(_)
trimEnd(s) ==
  IF s # <<>> /\ IsSpace(s[Len(s)]) THEN trimEnd(SubSeq(s, 1, Len(s) - 1)) ELSE s

trim(s) == trimEnd(trimStart(s))

\* s.split(/\s+/): the pieces between maximal runs of whitespace
RECURSIVE splitFrom(_, _, _)
splitFrom(s, i, cur) ==
  IF i > Len(s) THEN <<cur>>
  ELSE IF IsSpace(s[i])
       THEN IF i < Len(s) /\ IsSpace(s[i + 1])
            THEN splitFrom(s, i + 1, cur)
            ELSE <<cur>> \o splitFrom(s, i + 1, <<>>)
       ELSE splitFrom(s, i + 1, Append(cur, s[i]))

splitWs(s) == splitFrom(s, 1, <<>>)

RECURSIVE join(_, _)
join(parts, sep) ==
  IF parts = <<>> THEN <<>>
  ELSE IF Len(parts) = 1 THEN parts[1]
  ELSE parts[1] \o sep \o join(Tail(parts), sep)

\* s.includes(q)
includes(s, q) ==
  \E i \in 0..(Len(s) - Len(q)) : SubSeq(s, i + 1, i + Len(q)) = q

Reverse(s) == [i \in 1..Len(s) |-> s[Len(s) + 1 - i]]

\* a non-empty string is truthy
Truthy(s) == s # <<>>

\* ------------------------------------------------------------- helpers
\* Date#toISOString: fixed width, here two decimal digits and "Z"
toISOString(ms) == <<Digits[(ms \div 10) + 1], Digits[(ms % 10) + 1], "Z">>

DigitValue(c) == CHOOSE d \in 0..9 : Digits[d + 1] = c

\* new Date(iso).getTime()
getTime(iso) == 10 * DigitValue(iso[1]) + DigitValue(iso[2])

\* String(n) for a non-negative integer: decimal, no padding
RECURSIVE String(_)
String(n) ==
  IF n < 10 THEN <<Digits[n + 1]>>
  ELSE String(n \div 10) \o <<Digits[(n % 10) + 1]>>

nowISO(now) == toISOString(now)

\* mutant: runs of inner whitespace are kept
normalizeName_NoCollapse(full) == toLowerCase(trim(full))

normalizeName(full) == join(splitWs(toLowerCase(trim(full))), <<" ">>)

\* mutant: the key is the full name as typed
makeNameKey_Raw(first, last) == first \o <<" ">> \o last

makeNameKey(first, last) == normalizeName(first \o <<" ">> \o last)

\* ------------------------------------------------------------- state
VARIABLES
  localStorage,   \* <<>> when STORAGE_KEY holds no item, else <<records>>
  clock,          \* Date.now()
  page,           \* the page loaded in the tab
  homeTimer,      \* a goHomeAfterDelay timer is pending
  search,         \* value of the search input of the records page
  signIns,        \* successful sign-ins so far (also numbers the random ids)
  hasRandomUUID,  \* crypto.randomUUID exists on this platform
  closer,         \* history: for each stored record, what closed it
  tabs,           \* further tabs on the same storage: each one's page and handler
  completed,      \* history: the sign-ins and sign-outs those tabs completed
  last            \* history: the handler that ran last, its inputs and outputs

vars == <<localStorage, clock, page, homeTimer, search,
          signIns, hasRandomUUID, closer, tabs, completed, last>>

\* a tab of the two-tab specification: the page it shows, the handler it is
\* in (between its loadLog and its saveLog), the item it loaded, and the
\* record it will push or the index it will close
TabIds == {1, 2}
IdleTab == [page |-> "home", pc |-> "idle", item |-> <<>>, record |-> <<>>, index |-> 0]

\* ------------------------------------------------------------- inputs
Meeting == <<"M","e","e","t","i","n","g">>
Other == <<"O","t","h","e","r">>

\* values of the fields of the sign-in form at submit:
\* <<firstName, lastName, agency, reason, otherDetails>>
SignInInputs ==
  { << <<" ","J">>, <<"D"," ">>, <<"X">>, Meeting, <<"z">> >>,
    << <<"b">>,     <<"D">>,     <<"X">>, Other,   <<"z"," ">> >>,
    << <<" ">>,     <<"D">>,     <<"X">>, Meeting, <<>> >>,
    << <<"J">>,     <<>>,        <<"X">>, Meeting, <<>> >>,
    << <<"J">>,     <<"D">>,     <<" ">>, Other,   <<"z">> >>,
    << <<"b">>,     <<"D">>,     <<"X">>, Other,   <<" ">> >> }
FullNameInputs == { <<"j"," "," ","d">>, <<"B"," ","D"," ">>, <<"J">>, <<" ">> }
SearchInputs == { <<>>, <<"O","T","H"," ">> }

\* ------------------------------------------------------------- record store
loadLog(item) == IF item = <<>> THEN <<>> ELSE item[1]

saveLog(records) == <<records>>

IsOpen(r) == ~Truthy(r.signOutAt)

\* AUTO_SIGNOUT_HOURS * 60 * 60 * 1000 ms, in ticks
AutoSignOutTicks == AUTO_SIGNOUT_HOURS \div HoursPerTick

\* mutant: the hours are added to the timestamp without conversion
deadlineMs_Hours(r) == getTime(r.signInAt) + AUTO_SIGNOUT_HOURS

deadlineMs(r) == getTime(r.signInAt) + AutoSignOutTicks

\* mutant: a record is due only after its deadline
IsDue_Strict(r, now) == ~Truthy(r.signOutAt) /\ now > deadlineMs(r)

\* mutant: closed records are not skipped
IsDue_NoSkip(r, now) == now >= deadlineMs(r)

\* the test of the loop body of ensureAutoSignOut
IsDue(r, now) == IsOpen(r) /\ now >= deadlineMs(r)

\* mutant: the record is closed but not flagged
AutoClose_NoFlag(r) == [r EXCEPT !.signOutAt = toISOString(deadlineMs(r))]

\* the assignments of the loop body of ensureAutoSignOut
AutoClose(r) ==
  [r EXCEPT !.signOutAt = toISOString(deadlineMs(r)), !.autoSignedOut = TRUE]

\* ensureAutoSignOut: the item left in storage and whether saveLog ran
ensureAutoSignOut(item, now) ==
  LET records == loadLog(item)
      after == [i \in 1..Len(records) |->
                  IF IsDue(records[i], now) THEN AutoClose(records[i])
                  ELSE records[i]]
      changed == \E i \in 1..Len(records) : IsDue(records[i], now)
  IN [item |-> IF changed THEN saveLog(after) ELSE item,
      changed |-> changed]

\* mutant: closed records match too
IsActiveMatch_AnyState(r, nameKey) == r.nameKey = nameKey

IsActiveMatch(r, nameKey) == IsOpen(r) /\ r.nameKey = nameKey

\* mutant: the scan runs from the oldest record
findActiveByNameKey_Oldest(item, nameKey) ==
  LET records == loadLog(item)
      hits == { i \in 1..Len(records) : IsActiveMatch(records[i], nameKey) }
  IN IF hits = {} THEN 0
     ELSE CHOOSE i \in hits : \A j \in hits : i <= j

\* findActiveByNameKey: index of the match, 0 for null
findActiveByNameKey(item, nameKey) ==
  LET records == loadLog(item)
      hits == { i \in 1..Len(records) : IsActiveMatch(records[i], nameKey) }
  IN IF hits = {} THEN 0
     ELSE CHOOSE i \in hits : \A j \in hits : j <= i

\* history: closer after ensureAutoSignOut ran on item at now
CloserAfterAuto(item, cl, now) ==
  [i \in 1..Len(cl) |->
     IF IsDue(loadLog(item)[i], now) THEN "auto" ELSE cl[i]]

\* ------------------------------------------------------------- CSV
header ==
  << <<"f","i","r","s","t","_","n","a","m","e">>,
     <<"l","a","s","t","_","n","a","m","e">>,
     <<"a","g","e","n","c","y","_","i","n","s","t","i","t","u","t","i","o","n">>,
     <<"r","e","a","s","o","n">>,
     <<"o","t","h","e","r","_","d","e","t","a","i","l","s">>,
     <<"s","i","g","n","_","i","n">>,
     <<"s","i","g","n","_","o","u","t">>,
     <<"a","u","t","o","_","s","i","g","n","e","d","_","o","u","t">> >>

YES == <<"Y","E","S">>
NO == <<"N","O">>

\* mutant: a newline does not make a field quoted
NeedsQuotes_NoNewline(s) == \E i \in 1..Len(s) : s[i] \in {"\"", ","}

NeedsQuotes(s) == \E i \in 1..Len(s) : s[i] \in {"\"", ",", "\n"}

RECURSIVE doubleQuotes(_)
doubleQuotes(s) ==
  IF s = <<>> THEN <<>>
  ELSE IF Head(s) = "\"" THEN <<"\"", "\"">> \o doubleQuotes(Tail(s))
  ELSE <<Head(s)>> \o doubleQuotes(Tail(s))

escapeCSV(s) ==
  IF NeedsQuotes(s) THEN <<"\"">> \o doubleQuotes(s) \o <<"\"">> ELSE s

\* the fields of one data row of toCSV, before escaping
rowFields(r) ==
  << r.firstName, r.lastName, r.agency, r.reason, r.otherDetails,
     r.signInAt, r.signOutAt, IF r.autoSignedOut THEN YES ELSE NO >>

csvLine(fields) == join([i \in 1..Len(fields) |-> escapeCSV(fields[i])], <<",">>)

toCSV(records) ==
  LET lines == <<join(header, <<",">>)>> \o
               [i \in 1..Len(records) |-> csvLine(rowFields(records[i]))]
  IN join(lines, <<"\n">>)

\* ------------------------------------------------------------- records page
\* mutant: the text searched keeps its capitals
hay_CaseSensitive(r) ==
  r.firstName \o <<" ">> \o r.lastName \o <<" ">> \o r.agency
              \o <<" ">> \o r.reason \o <<" ">> \o r.otherDetails

hay(r) ==
  toLowerCase(r.firstName \o <<" ">> \o r.lastName \o <<" ">> \o r.agency
              \o <<" ">> \o r.reason \o <<" ">> \o r.otherDetails)

\* the rows render() puts in the table, given the stored item
filtered(item, searchValue) ==
  LET q == toLowerCase(trim(searchValue))
      ordered == Reverse(loadLog(item))
      Match(r) == includes(hay(r), q)
  IN IF Truthy(q) THEN SelectSeq(ordered, Match) ELSE ordered

\* ------------------------------------------------------------- history
\* what a handler leaves in last: the clock reads (now, then stamp), the item
\* in storage before it ran, the number of saveLog calls, its input, whether
\* it succeeded and what it showed: the alert message, the rows of the table
\* or the downloaded text
Step(op, now, stamp, before, saves, input, ok, out) ==
  [op |-> op, now |-> now, stamp |-> stamp, before |-> before, saves |-> saves,
   input |-> input, ok |-> ok, out |-> out]

Idle == Step("tick", 0, 0, <<>>, 0, <<>>, TRUE, <<>>)

Saves(auto) == IF auto.changed THEN 1 ELSE 0

\* ------------------------------------------------------------- initial state
\* nothing is stored and the home page is shown, in a browser that has
\* crypto.randomUUID
Init ==
  /\ localStorage = <<>>
  /\ clock = 0
  /\ page = "home"
  /\ homeTimer = FALSE
  /\ search = <<>>
  /\ signIns = 0
  /\ hasRandomUUID = TRUE
  /\ tabs = [t \in TabIds |-> IdleTab]
  /\ completed = {}
  /\ closer = <<>>
  /\ last = Idle

\* ------------------------------------------------------------- clock
Tick ==
  /\ clock < MaxClock
  /\ clock' = clock + 1
  /\ last' = Idle
  /\ UNCHANGED <<localStorage, page, homeTimer, search,
                 signIns, hasRandomUUID, tabs, completed, closer>>

\* ------------------------------------------------------------- page loads
\* initHome, initSignIn, initSignOut: ensureAutoSignOut on a fresh page
LoadPage(p) ==
  LET auto == ensureAutoSignOut(localStorage, clock)
  IN /\ localStorage' = auto.item
     /\ closer' = CloserAfterAuto(localStorage, closer, clock)
     /\ page' = p
     /\ homeTimer' = FALSE
     /\ search' = <<>>
     /\ last' = Step("load", clock, clock, localStorage, Saves(auto), <<>>, TRUE, <<>>)
     /\ UNCHANGED <<clock, signIns, hasRandomUUID, tabs, completed>>

initHome == LoadPage("home")

initSignIn == LoadPage("signin")

initSignOut == LoadPage("signout")

\* the timer of goHomeAfterDelay fires: window.location.href = "index.html"
goHomeAfterDelay ==
  /\ homeTimer
  /\ LoadPage("home")

\* render(): ensureAutoSignOut, then the table is rebuilt from storage
render(op, item, cl, now, searchValue, input, saves) ==
  LET auto == ensureAutoSignOut(item, now)
  IN /\ localStorage' = auto.item
     /\ closer' = CloserAfterAuto(item, cl, now)
     /\ search' = searchValue
     /\ last' = Step(op, now, now, localStorage, saves + Saves(auto), input, TRUE,
                     filtered(auto.item, searchValue))

\* initRecords: ensureAutoSignOut, then render() with the empty search box
initRecords ==
  \E d \in Drift :
    LET first == ensureAutoSignOut(localStorage, clock)
    IN /\ clock + d <= MaxClock
       /\ clock' = clock + d
       /\ render("records", first.item, CloserAfterAuto(localStorage, closer, clock),
                 clock + d, <<>>, <<>>, Saves(first))
       /\ page' = "records"
       /\ homeTimer' = FALSE
       /\ UNCHANGED <<signIns, hasRandomUUID, tabs, completed>>

\* search "input" event: render() with the new text
searchInput ==
  \E q \in SearchInputs :
    /\ page = "records"
    /\ render("search", localStorage, closer, clock, q, q, 0)
    /\ UNCHANGED <<clock, page, homeTimer, signIns, hasRandomUUID, tabs, completed>>

\* exportBtn "click": toCSV of the stored records, downloaded
exportClick ==
  /\ page = "records"
  /\ last' = Step("export", clock, clock, localStorage, 0, <<>>, TRUE,
                  toCSV(loadLog(localStorage)))
  /\ UNCHANGED <<localStorage, clock, page, homeTimer, search,
                 signIns, hasRandomUUID, tabs, completed, closer>>

\* mutant: another key is removed
removeItem_OtherKey(item) == item

\* localStorage.removeItem(STORAGE_KEY)
removeItem(item) == <<>>

\* clearBtn "click": after confirm(), removeItem and render()
clearClick ==
  \E ok \in BOOLEAN :
    /\ page = "records"
    /\ IF ok
       THEN render("clear", removeItem(localStorage), <<>>, clock, search, <<>>, 0)
       ELSE /\ last' = Step("clear", clock, clock, localStorage, 0, <<>>, FALSE, <<>>)
            /\ UNCHANGED <<localStorage, search, closer>>
    /\ UNCHANGED <<clock, page, homeTimer, signIns, hasRandomUUID, tabs, completed>>

\* the messages of showAlert
MissingRequiredAlert == "Please enter first name, last name, and agency/institution."
MissingOtherAlert == "Please specify details for 'Other'."
SignedInAlert == "Signed in successfully. Returning to home screen..."
EmptyNameAlert == "Please type your first and last name."
NotRecognizedAlert == "Name not recognized. Please check spelling or ask staff for help."
SignedOutAlert == "Signed out successfully. Returning to home screen..."

\* ------------------------------------------------------------- sign in
\* mutant: the agency is not required
MissingRequired_NoAgency(firstName, lastName, agency) ==
  ~Truthy(firstName) \/ ~Truthy(lastName)

\* the first validation of the submit handler, on the trimmed fields
MissingRequired(firstName, lastName, agency) ==
  ~Truthy(firstName) \/ ~Truthy(lastName) \/ ~Truthy(agency)

\* mutant: the details of the reason Other are not asked for
MissingOther_Never(reasonVal, otherDetails) == FALSE

\* the second validation of the submit handler
MissingOther(reasonVal, otherDetails) ==
  reasonVal = Other /\ ~Truthy(otherDetails)

\* crypto.randomUUID ? crypto.randomUUID() : String(Date.now())
newId(n, now) == IF hasRandomUUID THEN <<"u">> \o String(n) ELSE String(now)

\* the record literal of the submit handler
newRecord(id, firstName, lastName, agency, reasonVal, otherDetails, stamp) ==
  [id |-> id,
   firstName |-> firstName,
   lastName |-> lastName,
   agency |-> agency,
   reason |-> reasonVal,
   otherDetails |-> IF reasonVal = Other THEN otherDetails ELSE <<>>,
   signInAt |-> nowISO(stamp),
   signOutAt |-> <<>>,
   autoSignedOut |-> FALSE,
   nameKey |-> makeNameKey(firstName, lastName)]

\* mutant: the new record replaces the collection
push_Alone(records, record) == <<record>>

\* records.push(record)
push(records, record) == Append(records, record)

\* signInForm "submit"
signInSubmit ==
  \E input \in SignInInputs, d \in Drift :
    LET firstName == trim(input[1])
        lastName == trim(input[2])
        agency == trim(input[3])
        reasonVal == input[4]
        otherDetails == trim(input[5])
        record == newRecord(newId(signIns + 1, clock), firstName, lastName, agency,
                            reasonVal, otherDetails, clock + d)
    IN /\ page = "signin"
       /\ IF MissingRequired(firstName, lastName, agency)
          THEN /\ d = 0
               /\ last' = Step("signIn", clock, clock, localStorage, 0, input, FALSE, MissingRequiredAlert)
               /\ UNCHANGED <<localStorage, clock, homeTimer, signIns, closer>>
          ELSE IF MissingOther(reasonVal, otherDetails)
          THEN /\ d = 0
               /\ last' = Step("signIn", clock, clock, localStorage, 0, input, FALSE, MissingOtherAlert)
               /\ UNCHANGED <<localStorage, clock, homeTimer, signIns, closer>>
          ELSE /\ signIns < MaxSignIns
               /\ clock + d <= MaxClock
               /\ clock' = clock + d
               /\ localStorage' = saveLog(push(loadLog(localStorage), record))
               /\ closer' = Append(closer, "open")
               /\ signIns' = signIns + 1
               /\ homeTimer' = TRUE
               /\ last' = Step("signIn", clock, clock + d, localStorage, 1, input, TRUE, SignedInAlert)
       /\ UNCHANGED <<page, search, hasRandomUUID, tabs, completed>>

\* ------------------------------------------------------------- sign out
\* the two assignments of the submit handler on records[index]
\* mutant: the record signed out is taken out of the collection
closeAt_Splice(records, index, stamp) ==
  SubSeq(records, 1, index - 1) \o SubSeq(records, index + 1, Len(records))

closeAt(records, index, stamp) ==
  [records EXCEPT ![index].signOutAt = nowISO(stamp), ![index].autoSignedOut = FALSE]

\* the message the submit handler shows for fullName, run at now on item
signOutMessage(item, fullName, now) ==
  LET auto == ensureAutoSignOut(item, now)
      nameKey == normalizeName(fullName)
  IN IF ~Truthy(nameKey) THEN EmptyNameAlert
     ELSE IF findActiveByNameKey(auto.item, nameKey) = 0 THEN NotRecognizedAlert
     ELSE SignedOutAlert

\* signOutForm "submit"
signOutSubmit ==
  \E fullName \in FullNameInputs, d \in Drift :
    LET auto == ensureAutoSignOut(localStorage, clock)
        nameKey == normalizeName(fullName)
        index == findActiveByNameKey(auto.item, nameKey)
        swept == CloserAfterAuto(localStorage, closer, clock)
        message == signOutMessage(localStorage, fullName, clock)
    IN /\ page = "signout"
       /\ IF ~Truthy(nameKey)
          THEN /\ d = 0
               /\ localStorage' = auto.item
               /\ closer' = swept
               /\ last' = Step("signOut", clock, clock, localStorage, Saves(auto),
                               fullName, FALSE, message)
               /\ UNCHANGED <<clock, homeTimer>>
          ELSE IF index = 0
          THEN /\ d = 0
               /\ localStorage' = auto.item
               /\ closer' = swept
               /\ last' = Step("signOut", clock, clock, localStorage, Saves(auto),
                               fullName, FALSE, message)
               /\ UNCHANGED <<clock, homeTimer>>
          ELSE /\ clock + d <= MaxClock
               /\ clock' = clock + d
               /\ localStorage' = saveLog(closeAt(loadLog(auto.item), index, clock + d))
               /\ closer' = [swept EXCEPT ![index] = "explicit"]
               /\ homeTimer' = TRUE
               /\ last' = Step("signOut", clock, clock + d, localStorage, Saves(auto) + 1,
                               fullName, TRUE, message)
       /\ UNCHANGED <<page, search, signIns, hasRandomUUID, tabs, completed>>

\* ------------------------------------------------------------- specification
Next ==
  \/ Tick
  \/ initHome
  \/ initSignIn
  \/ initSignOut
  \/ initRecords
  \/ goHomeAfterDelay
  \/ signInSubmit
  \/ signOutSubmit
  \/ searchInput
  \/ exportClick
  \/ clearClick

Spec == Init /\ [][Next]_vars

\* the same program in a browser without crypto.randomUUID
InitFallback ==
  /\ localStorage = <<>>
  /\ clock = 0
  /\ page = "home"
  /\ homeTimer = FALSE
  /\ search = <<>>
  /\ signIns = 0
  /\ hasRandomUUID = FALSE
  /\ tabs = [t \in TabIds |-> IdleTab]
  /\ completed = {}
  /\ closer = <<>>
  /\ last = Idle

SpecFallback == InitFallback /\ [][Next]_vars

\* ------------------------------------------------------------- name keys
\* the name normalizer on every text of up to MaxLen characters: the key the
\* sign-in handler stores for the names typed and the key the sign-out
\* handler looks up for the full name typed
NameChars == {"j", "J", "d", " ", "\t"}
Texts == UNION { [1..n -> NameChars] : n \in 0..MaxLen }
NamePairs == { <<<<"J">>, <<"d">>>>, <<<<" ", "j">>, <<"D", "\t">>>>,
               <<<<"j", "d">>, <<"J">>>> }

InitNormalize ==
  /\ localStorage = <<>>
  /\ clock = 0
  /\ page = "home"
  /\ homeTimer = FALSE
  /\ search = <<>>
  /\ signIns = 0
  /\ hasRandomUUID = TRUE
  /\ tabs = [t \in TabIds |-> IdleTab]
  /\ completed = {}
  /\ closer = <<>>
  /\ \E text \in Texts : last = Step("text", 0, 0, <<>>, 0, text, TRUE, <<>>)

\* normalizeName(text)
applyNormalizeName ==
  /\ last.op = "text"
  /\ last' = [last EXCEPT !.op = "normalizeName", !.out = normalizeName(last.input)]
  /\ UNCHANGED <<localStorage, clock, page, homeTimer, search, signIns,
                 hasRandomUUID, tabs, completed, closer>>

\* the key stored at sign-in for a pair of names, makeNameKey(firstName,
\* lastName) of the trimmed values, and the key looked up at sign-out for the
\* text typed as full name
applyMakeNameKey ==
  /\ last.op = "text"
  /\ \E names \in NamePairs :
       last' = [last EXCEPT
                  !.op = "makeNameKey",
                  !.input = <<names[1], names[2], last.input>>,
                  !.out = <<makeNameKey(trim(names[1]), trim(names[2])),
                           normalizeName(last.input)>>]
  /\ UNCHANGED <<localStorage, clock, page, homeTimer, search, signIns,
                 hasRandomUUID, tabs, completed, closer>>

NextNormalize == applyNormalizeName \/ applyMakeNameKey

SpecNormalize == InitNormalize /\ [][NextNormalize]_vars

\* ------------------------------------------------------------- CSV fields
\* the export of a stored collection of two records, the older one closed by
\* auto sign-out, where one text field of the newer one is any text of up to
\* MaxField characters, commas, quotes and newlines among them
FieldChars == {"a", ",", "\"", "\n"}
FieldTexts == UNION { [1..n -> FieldChars] : n \in 0..MaxField }
TextFields == <<"firstName", "lastName", "agency", "reason", "otherDetails">>

InitCSV ==
  /\ \E text \in FieldTexts : \E k \in 1..Len(TextFields) :
       LET older == AutoClose(newRecord(<<"u", "1">>, <<"b">>, <<"D">>, <<"X">>,
                                        Other, <<"z">>, 0))
           newer == newRecord(<<"u", "2">>, <<"J">>, <<"D">>, <<"X">>, Meeting, <<>>, 0)
       IN localStorage = saveLog(<<older, [newer EXCEPT ![TextFields[k]] = text]>>)
  /\ clock = 0
  /\ page = "records"
  /\ homeTimer = FALSE
  /\ search = <<>>
  /\ signIns = 2
  /\ hasRandomUUID = TRUE
  /\ tabs = [t \in TabIds |-> IdleTab]
  /\ completed = {}
  /\ closer = <<>>
  /\ last = Idle

SpecCSV == InitCSV /\ [][exportClick]_vars

\* ------------------------------------------------------------- two tabs
\* Two tabs on the same storage key. A tab runs one handler at a time, but
\* the steps of the handlers of different tabs interleave: a submit handler
\* is a step that loads (loadLog) and a later step that saves (saveLog) the
\* whole collection it loaded. The clock stands still.
InitTabs == Init

\* a tab opens the sign-in or the sign-out page: ensureAutoSignOut
tabOpen(t) ==
  \E p \in {"signin", "signout"} :
    /\ tabs[t].pc = "idle"
    /\ tabs[t].page # p
    /\ localStorage' = ensureAutoSignOut(localStorage, clock).item
    /\ tabs' = [tabs EXCEPT ![t].page = p]
    /\ last' = Step("load", clock, clock, localStorage,
                    Saves(ensureAutoSignOut(localStorage, clock)), <<>>, TRUE, <<>>)
    /\ UNCHANGED <<clock, page, homeTimer, search, signIns, hasRandomUUID,
                   closer, completed>>

\* signInForm "submit" up to loadLog() and the record literal
tabSignInLoad(t) ==
  \E input \in SignInInputs :
    LET firstName == trim(input[1])
        lastName == trim(input[2])
        agency == trim(input[3])
        reasonVal == input[4]
        otherDetails == trim(input[5])
        record == newRecord(newId(signIns + 1, clock), firstName, lastName, agency,
                            reasonVal, otherDetails, clock)
    IN /\ tabs[t].page = "signin"
       /\ tabs[t].pc = "idle"
       /\ IF MissingRequired(firstName, lastName, agency)
          THEN /\ last' = Step("signIn", clock, clock, localStorage, 0, input, FALSE,
                               MissingRequiredAlert)
               /\ UNCHANGED <<tabs, signIns>>
          ELSE IF MissingOther(reasonVal, otherDetails)
          THEN /\ last' = Step("signIn", clock, clock, localStorage, 0, input, FALSE,
                               MissingOtherAlert)
               /\ UNCHANGED <<tabs, signIns>>
          ELSE /\ signIns < MaxSignIns
               /\ signIns' = signIns + 1
               /\ tabs' = [tabs EXCEPT ![t].pc = "signIn", ![t].item = localStorage,
                                       ![t].record = <<record>>]
               /\ last' = Idle
       /\ UNCHANGED <<localStorage, clock, page, homeTimer, search, hasRandomUUID,
                      closer, completed>>

\* signInForm "submit" from records.push(record) on
tabSignInSave(t) ==
  /\ tabs[t].pc = "signIn"
  /\ localStorage' = saveLog(push(loadLog(tabs[t].item), tabs[t].record[1]))
  /\ completed' = completed \cup {<<"signIn", tabs[t].record[1].id>>}
  /\ tabs' = [tabs EXCEPT ![t] = [IdleTab EXCEPT !.page = tabs[t].page]]
  /\ last' = Step("signIn", clock, clock, tabs[t].item, 1, <<>>, TRUE, SignedInAlert)
  /\ UNCHANGED <<clock, page, homeTimer, search, signIns, hasRandomUUID, closer>>

\* signOutForm "submit" up to findActiveByNameKey(nameKey)
tabSignOutLoad(t) ==
  \E fullName \in FullNameInputs :
    LET auto == ensureAutoSignOut(localStorage, clock)
        nameKey == normalizeName(fullName)
        index == findActiveByNameKey(auto.item, nameKey)
    IN /\ tabs[t].page = "signout"
       /\ tabs[t].pc = "idle"
       /\ localStorage' = auto.item
       /\ IF ~Truthy(nameKey) \/ index = 0
          THEN /\ last' = Step("signOut", clock, clock, localStorage, Saves(auto),
                               fullName, FALSE,
                               signOutMessage(localStorage, fullName, clock))
               /\ UNCHANGED tabs
          ELSE /\ tabs' = [tabs EXCEPT ![t].pc = "signOut", ![t].item = auto.item,
                                       ![t].index = index]
               /\ last' = Idle
       /\ UNCHANGED <<clock, page, homeTimer, search, signIns, hasRandomUUID,
                      closer, completed>>

\* signOutForm "submit" from the assignments to found.records[found.index] on
tabSignOutSave(t) ==
  /\ tabs[t].pc = "signOut"
  /\ localStorage' = saveLog(closeAt(loadLog(tabs[t].item), tabs[t].index, clock))
  /\ completed' = completed \cup {<<"signOut", loadLog(tabs[t].item)[tabs[t].index].id>>}
  /\ tabs' = [tabs EXCEPT ![t] = [IdleTab EXCEPT !.page = tabs[t].page]]
  /\ last' = Step("signOut", clock, clock, tabs[t].item, 1, <<>>, TRUE, SignedOutAlert)
  /\ UNCHANGED <<clock, page, homeTimer, search, signIns, hasRandomUUID, closer>>

NextTabs ==
  \E t \in TabIds :
    \/ tabOpen(t)
    \/ tabSignInLoad(t)
    \/ tabSignInSave(t)
    \/ tabSignOutLoad(t)
    \/ tabSignOutSave(t)

SpecTabs == InitTabs /\ [][NextTabs]_vars

\* ------------------------------------------------------------- reading a state
\* the persisted collection, and the collection the last handler started from
Stored == loadLog(localStorage)
Before == loadLog(last.before)

Closed(r) == r.signOutAt # <<>>

\* the instant a record reaches the auto sign-out age
DeadlineOf(r) == getTime(r.signInAt) + AutoSignOutTicks

\* The Auto-Close Policy as the specification states it: applied at now, every
\* open record that has reached its deadline is closed at the deadline and
\* flagged, every other record is kept as it is.
Policy(records, now) ==
  [i \in 1..Len(records) |->
     IF ~Closed(records[i]) /\ now >= DeadlineOf(records[i])
     THEN [records[i] EXCEPT !.signOutAt = toISOString(DeadlineOf(records[i])),
                             !.autoSignedOut = TRUE]
     ELSE records[i]]

\* indexes of the open records of a collection that carry a name key
OpenMatches(records, key) ==
  { i \in 1..Len(records) : ~Closed(records[i]) /\ records[i].nameKey = key }

Newest(indexes) == CHOOSE i \in indexes : \A j \in indexes : j <= i

Blank(s) == \A i \in 1..Len(s) : s[i] \in WhiteSpace

\* A reader of CSV text by the standard rule: a comma or a newline outside
\* quotes separates fields or rows, a character is outside quotes when an even
\* number of quotes precedes it, and a quoted field stands for its content
\* with every doubled quote read as one.
Outside(text, i) == Cardinality({ k \in 1..(i - 1) : text[k] = "\"" }) % 2 = 0

\* the pieces of text[from..to] between the positions of seps
pieces(text, from, to, seps) ==
  LET starts == {from} \cup { p + 1 : p \in seps }
      nth(k) == CHOOSE a \in starts : Cardinality({ b \in starts : b < a }) = k - 1
      stop(a) == IF \E p \in seps : p >= a
                 THEN (CHOOSE p \in seps : p >= a /\ \A q \in seps : q >= a => p <= q) - 1
                 ELSE to
  IN [k \in 1..Cardinality(starts) |-> [from |-> nth(k), to |-> stop(nth(k))]]

RECURSIVE undouble(_)
undouble(s) ==
  IF s = <<>> THEN <<>>
  ELSE IF Len(s) >= 2 /\ s[1] = "\"" /\ s[2] = "\""
       THEN <<"\"">> \o undouble(SubSeq(s, 3, Len(s)))
       ELSE <<Head(s)>> \o undouble(Tail(s))

unescapeCSV(f) ==
  IF Len(f) >= 2 /\ f[1] = "\"" /\ f[Len(f)] = "\""
  THEN undouble(SubSeq(f, 2, Len(f) - 1))
  ELSE f

parseCSV(text) ==
  LET newlines == { i \in 1..Len(text) : text[i] = "\n" /\ Outside(text, i) }
      commas == { i \in 1..Len(text) : text[i] = "," /\ Outside(text, i) }
      rows == pieces(text, 1, Len(text), newlines)
      fields(r) == pieces(text, r.from, r.to,
                          { c \in commas : r.from <= c /\ c <= r.to })
  IN [k \in 1..Len(rows) |->
        [j \in 1..Len(fields(rows[k])) |->
           unescapeCSV(SubSeq(text, fields(rows[k])[j].from, fields(rows[k])[j].to))]]

\* ------------------------------------------------------------- claims
SignOutSucceeded == last.op = "signOut" /\ last.ok
SignOutFailed == last.op = "signOut" /\ ~last.ok
SignInSucceeded == last.op = "signIn" /\ last.ok

\* C1 as stated: a successful signOut closes the newest record that was open
\* with the normalized name as key when signOut was called, and every other
\* record of the collection is as it was before the call.
C1_OnlyNewestMatchChanges ==
  SignOutSucceeded =>
    LET hits == OpenMatches(Before, normalizeName(last.input))
    IN /\ hits # {}
       /\ Len(Stored) = Len(Before)
       /\ Closed(Stored[Newest(hits)])
       /\ \A j \in 1..Len(Before) : j # Newest(hits) => Stored[j] = Before[j]

\* C1 amended: a successful signOut closes the newest record that is open with
\* the normalized name as key once the Auto-Close Policy has been applied to
\* the collection, stamping it with the time of the sign-out and clearing
\* autoSignedOut; every other record is as the Auto-Close Policy left it, so
\* an older open record with the same key stays open unless it was due.
C1_NewestOpenMatchClosed ==
  SignOutSucceeded =>
    LET swept == Policy(Before, last.now)
        hits == OpenMatches(swept, normalizeName(last.input))
    IN /\ hits # {}
       /\ Len(Stored) = Len(Before)
       /\ Stored[Newest(hits)] =
            [swept[Newest(hits)] EXCEPT !.signOutAt = toISOString(last.stamp),
                                        !.autoSignedOut = FALSE]
       /\ \A j \in 1..Len(Before) : j # Newest(hits) => Stored[j] = swept[j]

\* two open records had the key; the newer one was closed, the older stays open
C1_Witness ==
  /\ SignOutSucceeded
  /\ \E i, j \in 1..Len(Stored) :
       /\ i < j
       /\ Stored[i].nameKey = normalizeName(last.input)
       /\ Stored[j].nameKey = normalizeName(last.input)
       /\ ~Closed(Before[i]) /\ ~Closed(Stored[i])
       /\ ~Closed(Before[j]) /\ Closed(Stored[j])

\* C2: a record that is closed when a handler starts has the same signOutAt
\* and autoSignedOut when the handler ends, whatever the handler (a sign-in,
\* a sign-out, a page load, a listing, an export), as long as it is stored.
C2_ClosedOnce ==
  \A i \in 1..Len(Before) :
    (i <= Len(Stored) /\ Closed(Before[i])) =>
       /\ Stored[i].signOutAt = Before[i].signOutAt
       /\ Stored[i].autoSignedOut = Before[i].autoSignedOut

\* a sign-out succeeded for a name that also has a closed record, past its
\* deadline when the handler ran
C2_Witness ==
  /\ SignOutSucceeded
  /\ \E i \in 1..Len(Before) :
       /\ Closed(Before[i])
       /\ ~Before[i].autoSignedOut
       /\ Before[i].nameKey = normalizeName(last.input)
       /\ last.now >= DeadlineOf(Before[i])

\* C3: ensureAutoSignOut at any time now closes exactly the open records with
\* now >= signInAt + 8 hours, at the deadline and with autoSignedOut set,
\* keeps every other record, and saves if and only if a record changed; a page
\* load, which runs nothing else, leaves the collection so.
C3_AutoCloseExact ==
  /\ \A now \in 0..MaxClock :
       LET auto == ensureAutoSignOut(localStorage, now)
       IN /\ loadLog(auto.item) = Policy(Stored, now)
          /\ auto.changed <=> Policy(Stored, now) # Stored
          /\ ~auto.changed => auto.item = localStorage
  /\ last.op = "load" =>
       /\ Stored = Policy(Before, last.now)
       /\ last.saves = IF Stored # Before THEN 1 ELSE 0

\* a page load closed a record whose deadline had passed before the load, and
\* left a younger open record alone
C3_Witness ==
  /\ last.op = "load"
  /\ last.saves = 1
  /\ \E i, j \in 1..Len(Stored) :
       /\ ~Closed(Before[i]) /\ Closed(Stored[i])
       /\ last.now > DeadlineOf(Stored[i])
       /\ ~Closed(Stored[j])

\* C4: for the stored collection and any time now, a second ensureAutoSignOut
\* at the same now leaves what the first one left and does not save.
C4_AutoCloseIdempotent ==
  \A now \in 0..MaxClock :
    LET once == ensureAutoSignOut(localStorage, now)
        twice == ensureAutoSignOut(once.item, now)
    IN /\ twice.item = once.item
       /\ ~twice.changed

\* the stored collection holds a closed record and an open record that is due
C4_Witness ==
  \E i, j \in 1..Len(Stored) :
    /\ Closed(Stored[i]) /\ ~Stored[i].autoSignedOut
    /\ ~Closed(Stored[j]) /\ clock >= DeadlineOf(Stored[j])

\* C5 as stated: after a signOut that fails, the persisted collection is the
\* collection before it.
C5_FailedSignOutChangesNothing ==
  SignOutFailed => localStorage = last.before

\* C5 amended: a signOut that fails closes no record explicitly: the persisted
\* collection afterwards is the collection before it with the Auto-Close
\* Policy applied at the time of the call (so it is identical when no open
\* record was due), and the failure is the empty-name message exactly when
\* the name is blank.
C5_FailedSignOutOnlyAutoCloses ==
  SignOutFailed =>
    /\ Stored = Policy(Before, last.now)
    /\ last.saves = IF Stored # Before THEN 1 ELSE 0
    /\ last.out = (IF Blank(last.input) THEN EmptyNameAlert ELSE NotRecognizedAlert)

\* a sign-out was refused as not recognized and the collection changed
C5_Witness ==
  /\ SignOutFailed
  /\ last.out = NotRecognizedAlert
  /\ Stored # Before

\* C6 as stated: in the collection a successful signIn persists, every record
\* other than the new one that had reached its deadline when signIn was
\* called is closed.
C6_SignInAppliesAutoClose ==
  SignInSucceeded =>
    \A i \in 1..(Len(Stored) - 1) :
      DeadlineOf(Stored[i]) <= last.now => Closed(Stored[i])

\* C7: a successful signIn appends one record to the collection, with the
\* normalized "first last" as nameKey, the time of the sign-in as signInAt,
\* no signOutAt and autoSignedOut false, and the unfiltered listing taken at
\* that time starts with it.
C7_SignInAppendsRecord ==
  SignInSucceeded =>
    LET new == Stored[Len(Stored)]
        listing == filtered(ensureAutoSignOut(localStorage, last.stamp).item, <<>>)
    IN /\ Len(Stored) = Len(Before) + 1
       /\ SubSeq(Stored, 1, Len(Before)) = Before
       /\ new.nameKey = normalizeName(last.input[1] \o <<" ">> \o last.input[2])
       /\ getTime(new.signInAt) = last.stamp
       /\ new.signOutAt = <<>>
       /\ new.autoSignedOut = FALSE
       /\ Len(listing) = Len(Stored)
       /\ listing[1] = new

\* a sign-in with padded, capitalised names was appended to a collection that
\* held a record already
C7_Witness ==
  /\ SignInSucceeded
  /\ Len(Stored) = 2
  /\ last.input[1] # Stored[2].nameKey
  /\ last.input[1] # Stored[2].firstName

\* C8: a stored record has autoSignedOut true exactly when the Auto-Close
\* Policy closed it, and then signOutAt is signInAt + 8 hours; an open record
\* and a record closed by an explicit sign-out have autoSignedOut false.
C8_AutoFlagIffAutoClosed ==
  /\ Len(closer) = Len(Stored)
  /\ \A i \in 1..Len(Stored) :
       /\ Stored[i].autoSignedOut <=> closer[i] = "auto"
       /\ Closed(Stored[i]) <=> closer[i] # "open"
       /\ closer[i] = "auto" => getTime(Stored[i].signOutAt) = DeadlineOf(Stored[i])

\* the collection holds a record closed by the policy and one closed by hand
C8_Witness ==
  \E i, j \in 1..Len(Stored) :
    /\ closer[i] = "auto" /\ Stored[i].autoSignedOut
    /\ closer[j] = "explicit" /\ Closed(Stored[j])

\* C9: a signIn whose first name, last name or agency is blank, or whose
\* reason is "Other" with blank details, fails with a validation message and
\* leaves the persisted collection as it was; any other signIn succeeds; and
\* every stored record has a non-empty firstName, lastName, agency and nameKey.
C9_SignInValidation ==
  /\ last.op = "signIn" =>
       LET required == Blank(last.input[1]) \/ Blank(last.input[2]) \/ Blank(last.input[3])
           other == last.input[4] = Other /\ Blank(last.input[5])
       IN /\ last.ok <=> ~(required \/ other)
          /\ ~last.ok =>
               /\ localStorage = last.before
               /\ last.saves = 0
               /\ last.out = (IF required THEN MissingRequiredAlert ELSE MissingOtherAlert)
  /\ \A i \in 1..Len(Stored) :
       /\ Stored[i].firstName # <<>>
       /\ Stored[i].lastName # <<>>
       /\ Stored[i].agency # <<>>
       /\ Stored[i].nameKey # <<>>

\* a sign-in with a blank agency was refused on a non-empty collection
C9_Witness ==
  /\ last.op = "signIn"
  /\ ~last.ok
  /\ Blank(last.input[3])
  /\ ~Blank(last.input[1]) /\ ~Blank(last.input[2])
  /\ Stored # <<>>

\* C10 as stated: no data row of a CSV export taken at time now has an empty
\* sign_out while its sign_in + 8 hours <= now.
C10_ExportShowsNoOverdueOpenRecord ==
  last.op = "export" =>
    LET rows == parseCSV(last.out)
    IN \A k \in 2..Len(rows) :
         ~(rows[k][7] = <<>> /\ getTime(rows[k][6]) + AutoSignOutTicks <= last.now)

\* the open records of a collection, in order
OpenOnly(records) == SelectSeq(records, LAMBDA r : ~Closed(r))

\* C11: the message of a signOut does not depend on the closed records: on
\* the collection a signOut found stored, at the time it ran, every name gets
\* the message it gets on that collection without its closed records, and a
\* non-blank name whose records are all closed gets the not-recognized
\* message, as it does on the empty collection; the handler shows the
\* message of the name it was given.
C11_OutcomeIgnoresClosedRecords ==
  last.op = "signOut" =>
    /\ \A name \in FullNameInputs :
         LET message == signOutMessage(last.before, name, last.now)
         IN /\ message = signOutMessage(saveLog(OpenOnly(Before)), name, last.now)
            /\ (~Blank(name) /\ OpenMatches(Before, normalizeName(name)) = {}) =>
                 /\ message = NotRecognizedAlert
                 /\ signOutMessage(<<>>, name, last.now) = NotRecognizedAlert
    /\ last.out = signOutMessage(last.before, last.input, last.now)
    /\ last.ok <=> last.out = SignedOutAlert

\* a sign-out was refused as not recognized for a name that has a closed record
C11_Witness ==
  /\ SignOutFailed
  /\ last.out = NotRecognizedAlert
  /\ \E i \in 1..Len(Stored) :
       /\ Closed(Before[i])
       /\ Stored[i].nameKey = normalizeName(last.input)

\* C12: after a confirmed clearAll nothing is stored, the listing the handler
\* shows is empty, as is any listing taken then, and a signOut of any name is
\* refused as not recognized or, for a blank name, as empty.
C12_ClearAllEmpties ==
  (last.op = "clear" /\ last.ok) =>
    /\ localStorage = <<>>
    /\ Stored = <<>>
    /\ last.out = <<>>
    /\ \A q \in SearchInputs :
         filtered(ensureAutoSignOut(localStorage, clock).item, q) = <<>>
    /\ \A name \in FullNameInputs :
         signOutMessage(localStorage, name, clock)
           = (IF Blank(name) THEN EmptyNameAlert ELSE NotRecognizedAlert)

\* clearAll ran on a collection with an open and a closed record
C12_Witness ==
  /\ last.op = "clear" /\ last.ok
  /\ \E i, j \in 1..Len(Before) : Closed(Before[i]) /\ ~Closed(Before[j])

\* h contains q, letters compared without case
ContainsCI(h, q) ==
  \E i \in 0..(Len(h) - Len(q)) :
    \A k \in 1..Len(q) : toLowerChar(h[i + k]) = toLowerChar(q[k])

\* the text of a record that a filter is matched against
SearchText(r) ==
  r.firstName \o <<" ">> \o r.lastName \o <<" ">> \o r.agency \o <<" ">>
    \o r.reason \o <<" ">> \o r.otherDetails

\* the k-th smallest member of a set of numbers
Kth(set, k) == CHOOSE a \in set : Cardinality({ b \in set : b < a }) = k - 1

\* C13 as stated: a listing leaves in storage the collection with the
\* Auto-Close Policy applied and shows it newest first, all of it for an
\* empty filter, else exactly the records whose text contains the filter
\* text, as given, without regard to case.
C13_ListingFilteredByTextAsGiven ==
  last.op \in {"search", "records"} =>
    LET newestFirst == [i \in 1..Len(Stored) |-> Stored[Len(Stored) + 1 - i]]
        shown == { i \in 1..Len(Stored) :
                     ContainsCI(SearchText(newestFirst[i]), last.input) }
    IN /\ Stored = Policy(Before, last.now)
       /\ last.input = <<>> => last.out = newestFirst
       /\ Len(last.out) = Cardinality(shown)
       /\ \A k \in 1..Len(last.out) : last.out[k] = newestFirst[Kth(shown, k)]

\* C13 amended: a listing (the records page loading, or its search box changing)
\* leaves in storage the collection with the Auto-Close Policy applied, and
\* shows that collection newest first: all of it when the trimmed filter is
\* empty, else exactly its records whose first name, last name, agency,
\* reason and other details, joined by spaces, contain the trimmed filter
\* without regard to case, in the same order.
C13_ListingNewestFirstFiltered ==
  last.op \in {"search", "records"} =>
    LET text == trim(last.input)
        newestFirst == [i \in 1..Len(Stored) |-> Stored[Len(Stored) + 1 - i]]
        shown == { i \in 1..Len(Stored) : ContainsCI(SearchText(newestFirst[i]), text) }
    IN /\ Stored = Policy(Before, last.now)
       /\ text = <<>> => last.out = newestFirst
       /\ Len(last.out) = Cardinality(shown)
       /\ \A k \in 1..Len(last.out) : last.out[k] = newestFirst[Kth(shown, k)]

\* a search whose listing closed an overdue record and showed the older of
\* two records only
C13_Witness ==
  /\ last.op = "search"
  /\ Len(Stored) = 2
  /\ last.out = <<Stored[1]>>
  /\ Stored # Before

\* C14: in every reachable state the ids of the stored records are pairwise
\* distinct, also where crypto.randomUUID is missing and the id is the
\* current time.
C14_IdsDistinct ==
  \A i, j \in 1..Len(Stored) : Stored[i].id = Stored[j].id => i = j

\* the words of a text: its maximal runs of characters that are not
\* whitespace, in lower case
WordStarts(t) ==
  { i \in 1..Len(t) : ~IsSpace(t[i]) /\ (i = 1 \/ IsSpace(t[i - 1])) }

WordEnd(t, i) ==
  CHOOSE j \in i..Len(t) :
    /\ \A k \in i..j : ~IsSpace(t[k])
    /\ j = Len(t) \/ IsSpace(t[j + 1])

Words(t) ==
  [k \in 1..Cardinality(WordStarts(t)) |->
     toLowerCase(SubSeq(t, Kth(WordStarts(t), k), WordEnd(t, Kth(WordStarts(t), k))))]

\* two texts are variants of each other in case and whitespace
Variant(t, u) == Words(t) = Words(u)

\* C15: for every text, normalizeName(text) has no leading or trailing
\* whitespace, no upper-case letter and no two adjacent whitespace characters,
\* normalizing it again changes nothing, and it is empty when the text is
\* empty or blank; the key looked up at sign-out for any case or whitespace
\* variant of the names typed at sign-in is the stored name key.
C15_NormalizeCanonical ==
  /\ last.op = "normalizeName" =>
       LET key == last.out
       IN /\ key # <<>> => ~IsSpace(key[1]) /\ ~IsSpace(key[Len(key)])
          /\ \A i \in 1..Len(key) : \A u \in 1..26 : key[i] # UpperChars[u]
          /\ \A i \in 1..(Len(key) - 1) : ~(IsSpace(key[i]) /\ IsSpace(key[i + 1]))
          /\ normalizeName(key) = key
          /\ Blank(last.input) => key = <<>>
  /\ last.op = "makeNameKey" =>
       (Variant(last.input[1] \o <<" ">> \o last.input[2], last.input[3])
          => last.out[2] = last.out[1])

\* a full name with a tab and a space between its words and in another case
\* gives the key stored for the names typed at sign-in
C15_Witness ==
  /\ last.op = "makeNameKey"
  /\ last.input = <<<<" ", "j">>, <<"D", "\t">>, <<"J", "\t", " ", "d">>>>
  /\ last.out = <<<<"j", " ", "d">>, <<"j", " ", "d">>>>

\* the fields of CSV text as they are written, row by row: the text between
\* the commas and newlines that are outside quotes
writtenCSV(text) ==
  LET newlines == { i \in 1..Len(text) : text[i] = "\n" /\ Outside(text, i) }
      commas == { i \in 1..Len(text) : text[i] = "," /\ Outside(text, i) }
      rows == pieces(text, 1, Len(text), newlines)
      fields(r) == pieces(text, r.from, r.to,
                          { c \in commas : r.from <= c /\ c <= r.to })
  IN [k \in 1..Len(rows) |->
        [j \in 1..Len(fields(rows[k])) |->
           SubSeq(text, fields(rows[k])[j].from, fields(rows[k])[j].to)]]

QuoteCount(s) == Cardinality({ i \in 1..Len(s) : s[i] = "\"" })

\* a field value is written wrapped in quotes with every quote doubled when
\* it holds a comma, a quote or a newline, and as it is otherwise
WrittenAs(value, written) ==
  IF \E i \in 1..Len(value) : value[i] \in {",", "\"", "\n"}
  THEN /\ Len(written) = Len(value) + QuoteCount(value) + 2
       /\ written[1] = "\"" /\ written[Len(written)] = "\""
       /\ QuoteCount(written) = 2 * QuoteCount(value) + 2
       /\ undouble(SubSeq(written, 2, Len(written) - 1)) = value
  ELSE written = value

\* the eight values of the export row of a record
ExportValues(r) ==
  << r.firstName, r.lastName, r.agency, r.reason, r.otherDetails, r.signInAt,
     r.signOutAt, IF r.autoSignedOut THEN <<"Y","E","S">> ELSE <<"N","O">> >>

\* C16: the export is the header row of 8 fixed column names followed by one
\* row per stored record in stored order; every field is written wrapped in
\* quotes with its quotes doubled when it holds a comma, a quote or a
\* newline and as it is otherwise; reading each written field back by the
\* CSV rule gives the value of the record, auto_signed_out being YES or NO.
C16_ExportEscapesEachField ==
  last.op = "export" =>
    LET written == writtenCSV(last.out)
        rows == parseCSV(last.out)
    IN /\ Len(header) = 8
       /\ written[1] = header
       /\ Len(written) = Len(Before) + 1
       /\ \A k \in 1..Len(Before) :
            /\ Len(written[k + 1]) = 8
            /\ rows[k + 1] = ExportValues(Before[k])
            /\ \A j \in 1..8 :
                 /\ WrittenAs(ExportValues(Before[k])[j], written[k + 1][j])
                 /\ unescapeCSV(written[k + 1][j]) = ExportValues(Before[k])[j]

\* an export of a record whose agency is a quote, a comma and a newline
C16_Witness ==
  /\ last.op = "export"
  /\ Len(Before) = 2
  /\ Before[1].autoSignedOut
  /\ Before[2].agency = <<"\"", ",", "\n">>
  /\ writtenCSV(last.out)[3][3] = <<"\"", "\"", "\"", ",", "\n", "\"">>

\* the fields of a record that no operation may change
CreationFields ==
  {"id", "firstName", "lastName", "agency", "reason", "otherDetails",
   "signInAt", "nameKey"}

\* C17: whatever a handler other than a confirmed Clear All does, every
\* record that was stored before it is still stored at the same position,
\* with the same id, firstName, lastName, agency, reason, otherDetails,
\* signInAt and nameKey; only signOutAt and autoSignedOut may differ, and no
\* record is removed.
C17_ExistingRecordsKept ==
  ~(last.op = "clear" /\ last.ok) =>
    /\ Len(Stored) >= Len(Before)
    /\ \A i \in 1..Len(Before) :
         /\ DOMAIN Stored[i] = DOMAIN Before[i]
         /\ \A f \in CreationFields : Stored[i][f] = Before[i][f]

\* a sign-out that closed one of two stored records
C17_Witness ==
  /\ SignOutSucceeded
  /\ Len(Before) = 2
  /\ Len(Stored) = 2
  /\ Stored # Before

\* C19: every stored record has otherDetails non-empty exactly when its
\* reason is "Other"; details typed with another reason are not stored.
C19_OtherDetailsIffOther ==
  \A i \in 1..Len(Stored) :
    Stored[i].otherDetails # <<>> <=> Stored[i].reason = Other

\* a sign-in with the reason Meeting and details typed stored no details
C19_Witness ==
  /\ SignInSucceeded
  /\ last.input[4] = Meeting
  /\ ~Blank(last.input[5])
  /\ Stored[Len(Stored)].reason = Meeting
  /\ Stored[Len(Stored)].otherDetails = <<>>
  /\ \E i \in 1..Len(Stored) : Stored[i].reason = Other

\* C20: every closed record was signed out no earlier than it signed in and
\* no later than 8 hours after, and strictly earlier than that when it was
\* not signed out automatically, also when the sign-out handler reads the
\* clock once for the auto sign-out and once more for the stamp.
C20_ClosedWithinDeadline ==
  \A i \in 1..Len(Stored) :
    Closed(Stored[i]) =>
      /\ getTime(Stored[i].signInAt) <= getTime(Stored[i].signOutAt)
      /\ getTime(Stored[i].signOutAt) <= DeadlineOf(Stored[i])
      /\ ~Stored[i].autoSignedOut =>
           getTime(Stored[i].signOutAt) < DeadlineOf(Stored[i])

\* only one tab has ever loaded a page
SingleTab == \E t \in TabIds : \A u \in TabIds \ {t} : tabs[u] = IdleTab

\* a completed sign-in whose record is not stored
SignInLost ==
  \E c \in completed :
    c[1] = "signIn" /\ ~\E i \in 1..Len(Stored) : Stored[i].id = c[2]

\* a completed sign-out whose record is not stored, or is stored open
SignOutReverted ==
  \E c \in completed :
    c[1] = "signOut" /\ ~\E i \in 1..Len(Stored) : Stored[i].id = c[2] /\ Closed(Stored[i])

\* C18: as long as a single tab has been operating, every completed sign-in
\* is stored and every completed sign-out is stored closed; with two tabs
\* whose load and save steps interleave a completed sign-in can be missing
\* from storage although nothing was cleared (the witness).
C18_SingleTabLosesNothing ==
  SingleTab => ~SignInLost /\ ~SignOutReverted

\* two tabs: both sign-ins completed and one of the records is not stored
C18_Witness ==
  /\ ~SingleTab
  /\ \A t \in TabIds : tabs[t].pc = "idle"
  /\ Cardinality({ c \in completed : c[1] = "signIn" }) = 2
  /\ SignInLost
  /\ Len(Stored) = 1

\* two tabs: a completed sign-out is stored open again
C18_SignOutRevertedReached ==
  ~SingleTab /\ SignOutReverted /\ \A t \in TabIds : tabs[t].pc = "idle"


====
